---------------------------- MODULE Spec2Model ----------------------------
(***************************************************************************)
(* ThreatWatch: recurring-monitor scheduling, dispatch and rate limiting.  *)
(*                                                                         *)
(* The state machines of this module:                                      *)
(*   SpecCalc  calculate_next_run_at applied to bounded inputs             *)
(*   Spec      the monitor store, the job queue, create_monitor,           *)
(*             test_monitor and the scan_due_monitors sweep                *)
(*   SpecQueue the broker with overlapping sweeps and workers              *)
(*   SpecRate  RateLimiter.__call__ over the Redis counters                *)
(*   SpecRace  RateLimiter.__call__ run by several threads at once         *)
(*   SpecIdent the address RateLimiter.__call__ counts a request against   *)
(*   SpecScan  scan_monitor_task, one statement group at a time            *)
(*   SpecCadence the sweep over rows of any stored frequency               *)
(*   SpecStore the writers of the monitors table: the API, the sweep,      *)
(*             the scan, cleanup_old_reports, send_report_email_task       *)
(*   SpecLife  BaseTask around the executions of a task                    *)
(*   SpecLoad  download_report                                             *)
(*   SpecRank  the ranking of scan_monitor_task                            *)
(*   SpecBurst RateLimiter.__call__ with the admissions of each tick       *)
(*   SpecLive  the beat's sweeps for ever, under fairness                  *)
(*   SpecCreate create_monitor with what its caller is answered            *)
(*                                                                         *)
(* Instants are UTC and counted in ticks since BaseYear-01-01T00:00Z;      *)
(* a day is TicksPerDay ticks.                                             *)
(***************************************************************************)
EXTENDS Integers, Sequences, FiniteSets, Bags, TLC

VARIABLES
    \* ---- SpecCalc: one call of calculate_next_run_at
    cFreq,      \* the frequency argument
    cLast,      \* the last_run_at argument
    cNow,       \* what datetime.now(timezone.utc) returns during the call
    cOut,       \* <<>> before the call, then <<what the call returned or raised>>
    \* ---- Spec: scheduler
    now,        \* the wall clock
    monitors,   \* the store's monitors table: id -> row, or NoRow
    edits,      \* number of edits made by the store's other writers
    jobs,       \* the broker: the bag of ScanJobs pending or executing
    pc,         \* per sweep execution slot: where scan_due_monitors is
    todo,       \* per sweep: the rows of response.data still to process
    run,        \* per sweep: what the execution in progress has read and done
    runs,       \* number of sweep executions started
    moves,      \* per monitor, of the latest reschedule a sweep made of it: the
                \* sweep's number, the row it had read, the row the store held,
                \* the next_run_at written and the clock at the write
    \* ---- SpecRate: rate limiter
    rnow,       \* time.time(), in ticks of ten seconds
    client,     \* per RateLimiter: redis_client is set
    counters,   \* Redis: key -> [n, until], n = 0 for a key that is not there
    lastCheck,  \* the latest rate-limit check and its outcome
    track,      \* what the checks so far did, per address and window
    \* ---- SpecRace: concurrent calls of one RateLimiter process
    calls,      \* per thread: where its RateLimiter.__call__ is, what it holds
    \* ---- SpecIdent: one request
    request,    \* the request: identity of the token, forwarded-for list, peer
    ident,      \* <<>> before the call, then <<client_ip of line 44>>
    \* ---- SpecScan: the worker running scan_monitor_task
    conf,       \* which module-level clients and credentials are set
    work,       \* the execution in progress, or the last one
    scans,      \* number of executions started
    searches,   \* rows of the searches table
    reports,    \* rows of the reports table
    outbox,     \* NotificationJobs sent with send_report_email_task.delay
    \* ---- SpecStore: every writer of the store side by side
    emails,     \* report ids of the emails send_report_email_task handed to SMTP
    \* ---- SpecLife: task executions under BaseTask
    lnow,       \* time.time() in the worker process
    start_time, \* per task: the start_time attribute of the task object
    execs,      \* per execution slot of the process: the execution in progress
    begun,      \* number of executions begun
    log,        \* the status records BaseTask wrote, in order
    results,    \* per execution: what its body did and the state Celery stored
    \* ---- SpecLoad: one call of download_report
    dClient,    \* main.supabase is set
    dTable,     \* the reports table as the endpoint's query sees it
    dReq,       \* the request: report_id, the user_id of the token, the store failing
    dOut,       \* <<>> before the call, then <<the response>>
    \* ---- SpecRank: the ranking step of scan_monitor_task
    items,      \* res.get("items", []): what the provider returned, in its order
    ranked,     \* <<>> before the step, then <<ranked_items>>
    \* ---- SpecBurst: the rate limiter's checks with their times
    admitted,   \* per limiter, address and tick: the requests let through, those
                \* among them that Redis counted
    \* ---- SpecCreate: the replies of create_monitor
    replies     \* what the callers of POST /api/monitors were answered

calcVars  == <<cFreq, cLast, cNow, cOut>>
schedVars == <<now, monitors, edits, jobs, pc, todo, run, runs, moves>>
rateVars  == <<rnow, client, counters, lastCheck, track>>
raceVars  == <<calls>>
identVars == <<request, ident>>
scanVars  == <<conf, work, scans, searches, reports, outbox>>
mailVars  == <<emails>>
lifeVars  == <<lnow, start_time, execs, begun, log, results>>
loadVars  == <<dClient, dTable, dReq, dOut>>
rankVars  == <<items, ranked>>
burstVars == <<admitted>>
apiVars   == <<replies>>
laterVars == <<mailVars, lifeVars, loadVars, rankVars, burstVars, apiVars>>
vars      == <<calcVars, schedVars, rateVars, raceVars, identVars, scanVars, laterVars>>

-----------------------------------------------------------------------------
(* Bounds *)

TicksPerDay  == 2       \* clock resolution
MaxLastDay   == 34      \* SpecCalc: last_run_at within days 0..MaxLastDay
MaxNowDay    == 64      \* SpecCalc: now within days 0..MaxNowDay

MaxTime      == 6       \* Spec: the clock runs over 0..MaxTime
MaxRuns      == 2       \* Spec: sweep executions started
MaxEdits     == 1       \* Spec: edits by the store's other writers
MaxJobs      == 2       \* SpecQueue: ScanJobs on the broker when a test scan is asked
Window       == 3       \* SpecRate: RateLimiter.window, in ticks
LimitCreate  == 2       \* SpecRate: limit of the limiter on POST /api/monitors
LimitTest    == 1       \* SpecRate: limit of the limiter on POST /api/monitors/{id}/test
MaxRateTime  == 6       \* SpecRate: the clock runs over 0..MaxRateTime
MaxChecks    == 6       \* SpecRate: rate-limit checks made
MaxScans     == 2       \* SpecScan: executions of scan_monitor_task started
MaxItems     == 1       \* SpecScan: items the search provider returns
MaxRanked    == 3       \* SpecRank: items in the provider's answer
MaxLifeTime  == 2       \* SpecLife: the clock runs from 0 to MaxLifeTime
MaxExecs     == 3       \* SpecLife: task executions begun

BaseYear     == 2023    \* the calendar year tick 0 lies in
Jan31        == 30      \* day number of 31 January of BaseYear
Feb28        == 58      \* day number of 28 February of BaseYear

MonitorIds   == <<"m1", "m2">>      \* identifiers, in the order the store hands them out
Monitors     == {MonitorIds[i] : i \in 1..Len(MonitorIds)}
Sweeps       == {"s1", "s2"}        \* worker slots that can run a sweep
Beat         == {"s1"}              \* the slot in use when sweeps run one at a time
Users        == {"u1"}
Limiters     == {"create", "test"}  \* the RateLimiter instances of two endpoints
Hosts        == {"ip1", "ip2"}      \* request.client.host
Terms        == {"q1"}              \* query text given at creation

Cadences     == {"daily", "weekly", "monthly"}
Frequencies  == Cadences \cup {"yearly"}

-----------------------------------------------------------------------------
(* Calendar arithmetic of dateutil.relativedelta, as schedule_utils uses it *)

IsLeap(y) == (y % 4 = 0 /\ y % 100 # 0) \/ y % 400 = 0

DaysInYear(y) == IF IsLeap(y) THEN 366 ELSE 365

DaysInMonth(y, m) ==
    IF m = 2 THEN (IF IsLeap(y) THEN 29 ELSE 28)
    ELSE IF m \in {4, 6, 9, 11} THEN 30 ELSE 31

RECURSIVE SplitYear(_, _)
\* <<year, day of year (0-based)>> of day number d counted from 1 January y
SplitYear(y, d) ==
    IF d < DaysInYear(y) THEN <<y, d>> ELSE SplitYear(y + 1, d - DaysInYear(y))

RECURSIVE SplitMonth(_, _, _)
\* <<month, day of month (1-based)>> of 0-based day d counted from the 1st of month m
SplitMonth(y, m, d) ==
    IF d < DaysInMonth(y, m) THEN <<m, d + 1>>
    ELSE SplitMonth(y, m + 1, d - DaysInMonth(y, m))

\* day number -> [y, m, d]
ToDate(n) ==
    LET yd == SplitYear(BaseYear, n)
        md == SplitMonth(yd[1], 1, yd[2])
    IN  [y |-> yd[1], m |-> md[1], d |-> md[2]]

RECURSIVE DaysBeforeYear(_)
DaysBeforeYear(y) ==
    IF y <= BaseYear THEN 0 ELSE DaysBeforeYear(y - 1) + DaysInYear(y - 1)

RECURSIVE DaysBeforeMonth(_, _)
DaysBeforeMonth(y, m) ==
    IF m <= 1 THEN 0 ELSE DaysBeforeMonth(y, m - 1) + DaysInMonth(y, m - 1)

\* [y, m, d] -> day number
FromDate(dt) == DaysBeforeYear(dt.y) + DaysBeforeMonth(dt.y, dt.m) + dt.d - 1

Min(a, b) == IF a <= b THEN a ELSE b

\* (mutation: the day of the month is kept and runs over into the next month)
AddMonth_overflow(t) ==
    LET dt == ToDate(t \div TicksPerDay)
        y2 == IF dt.m = 12 THEN dt.y + 1 ELSE dt.y
        m2 == IF dt.m = 12 THEN 1 ELSE dt.m + 1
    IN  FromDate([y |-> y2, m |-> m2, d |-> dt.d]) * TicksPerDay + (t % TicksPerDay)

\* t + relativedelta(months=1): next month, the day clipped to that month's
\* length, the time of day kept
AddMonth(t) ==
    LET dt == ToDate(t \div TicksPerDay)
        y2 == IF dt.m = 12 THEN dt.y + 1 ELSE dt.y
        m2 == IF dt.m = 12 THEN 1 ELSE dt.m + 1
        d2 == Min(dt.d, DaysInMonth(y2, m2))
    IN  FromDate([y |-> y2, m |-> m2, d |-> d2]) * TicksPerDay + (t % TicksPerDay)

\* t + delta for the delta that lines 28-33 choose for a supported frequency
AddDelta(frequency, t) ==
    CASE frequency = "daily"   -> t + TicksPerDay
      [] frequency = "weekly"  -> t + 7 * TicksPerDay
      [] frequency = "monthly" -> AddMonth(t)

\* (mutation: the loop stops as soon as next_run reaches now)
CatchUpLoopGuard_upto(next_run, clock) == next_run < clock

\* the condition of the catch-up loop: next_run <= now
CatchUpLoopGuard(next_run, clock) == next_run <= clock

\* (mutation: one step, no loop)
CatchUp_once(frequency, next_run, clock) == AddDelta(frequency, next_run)

RECURSIVE CatchUp(_, _, _)
\* while next_run <= now: next_run += delta
CatchUp(frequency, next_run, clock) ==
    IF CatchUpLoopGuard(next_run, clock)
    THEN CatchUp(frequency, AddDelta(frequency, next_run), clock)
    ELSE next_run

\* raise ValueError(...): no instant is negative
ValueError == -1

\* calculate_next_run_at(frequency, last_run_at) called when the clock reads
\* `clock`: the next run instant, or ValueError for an unsupported frequency
calculate_next_run_at(frequency, last_run_at, clock) ==
    IF frequency \in Cadences
    THEN CatchUp(frequency, last_run_at, clock)
    ELSE ValueError

-----------------------------------------------------------------------------
(* The store's monitors table and the broker's ScanJob queue *)

NoRow == [id |-> "none"]

\* str.lower() on the frequency values the store can hold
Lower(frequency) == IF frequency = "Weekly" THEN "weekly" ELSE frequency

Null == "null"                              \* None

StoredFrequencies == Frequencies \cup {"Weekly"}
StoredTexts       == Terms \cup {""}

Exists(m) == monitors[m] # NoRow

\* (mutation: the query forgets the active filter)
DueRows_anyActive(clock) ==
    {monitors[m] : m \in {x \in Monitors : Exists(x) /\ monitors[x].next_run_at <= clock}}

\* supabase.table("monitors").select("*").eq("active", True).lte("next_run_at", now_iso)
DueRows(clock) ==
    {monitors[m] : m \in {x \in Monitors :
        Exists(x) /\ monitors[x].active /\ monitors[x].next_run_at <= clock}}

\* the orders in which the store may return a set of rows
Orders(S) ==
    {q \in [1..Cardinality(S) -> S] : \A i, j \in 1..Cardinality(S) : i # j => q[i] # q[j]}

Ids(q) == {q[i].id : i \in 1..Len(q)}

\* scan_monitor_task.delay(monitor_id, ...): one more message on the broker;
\* `by` is the sender: "create", "test" or "sweep"
Send(monitor_id, monitor_data, by) ==
    jobs (+) SetToBag({[monitor_id |-> monitor_id, monitor_data |-> monitor_data,
                        by |-> by, st |-> "pending"]})

\* number of ScanJobs of monitor m that are pending or executing
Active(m) ==
    BagCardinality([j \in {x \in BagToSet(jobs) : x.monitor_id = m} |-> jobs[j]])

NoRun  == [no |-> 0, at |-> 0, found |-> {}, sent |-> <<>>, moved |-> <<>>,
           err |-> "none", on |-> "none"]
NoMove == [no |-> 0, row |-> NoRow, before |-> NoRow, to |-> -1, at |-> -1]

-----------------------------------------------------------------------------
(* create_monitor and test_monitor (main.py), and the store's other writers *)

\* datetime.now(timezone.utc)
Tick ==
    /\ now < MaxTime
    /\ now' = now + 1
    /\ UNCHANGED <<monitors, edits, jobs, pc, todo, run, runs, moves>>

\* the record create_monitor inserts, with the id the store gives it
NewMonitor(id, user_id, term, frequency) ==
    [id |-> id, user_id |-> user_id, query_text |-> term, frequency |-> frequency,
     next_run_at |-> calculate_next_run_at(frequency, now, now), active |-> TRUE]

\* the id the store gives the next inserted monitor
FreshId(id) ==
    \E i \in 1..Len(MonitorIds) :
        /\ id = MonitorIds[i]
        /\ ~Exists(id)
        /\ \A k \in 1..(i - 1) : Exists(MonitorIds[k])

\* POST /api/monitors: insert the monitor, then send its first ScanJob with
\* the new record as monitor_data; when the send raises (sent = FALSE) the
\* row stays and the caller gets a 500
CreateMonitor(id, user_id, term, frequency, sent) ==
    /\ FreshId(id)
    /\ LET new_monitor == NewMonitor(id, user_id, term, frequency) IN
        /\ monitors' = [monitors EXCEPT ![id] = new_monitor]
        /\ jobs' = IF sent THEN Send(id, new_monitor, "create") ELSE jobs
    /\ UNCHANGED <<now, edits, pc, todo, run, runs, moves>>

\* POST /api/monitors/{monitor_id}/test: send a ScanJob, no lookup of the monitor
TestMonitor(monitor_id) ==
    /\ BagCardinality(jobs) < MaxJobs
    /\ jobs' = Send(monitor_id, NoRow, "test")
    /\ UNCHANGED <<now, monitors, edits, pc, todo, run, runs, moves>>

\* another writer of the store (the HTTP layer, the owner's client) sets one
\* field other than next_run_at of monitor m
ExternalEdit(m, field) ==
    /\ Exists(m)
    /\ edits < MaxEdits
    /\ edits' = edits + 1
    /\ \/ /\ field = "active"
          /\ monitors' = [monitors EXCEPT ![m].active = ~monitors[m].active]
       \/ /\ field = "query_text"
          /\ \E t \in StoredTexts \ {monitors[m].query_text} :
                monitors' = [monitors EXCEPT ![m].query_text = t]
       \/ /\ field = "frequency"
          /\ \E f \in StoredFrequencies \ {monitors[m].frequency} :
                monitors' = [monitors EXCEPT ![m].frequency = f]
    /\ UNCHANGED <<now, jobs, pc, todo, run, runs, moves>>

-----------------------------------------------------------------------------
(* scan_due_monitors (celery_tasks.py), one loop step at a time *)

\* lines 243-256: read the clock, query the due monitors; `no` numbers the
\* execution
SweepBegin(s, no) ==
    /\ pc[s] = "idle"
    /\ \E data \in Orders(DueRows(now)) :
        /\ todo' = [todo EXCEPT ![s] = data]
        /\ run' = [run EXCEPT ![s] = [NoRun EXCEPT !.no = no, !.at = now,
                                                   !.found = Ids(data)]]
        /\ pc' = [pc EXCEPT ![s] = IF Len(data) = 0 THEN "done" ELSE "enqueue"]
    /\ UNCHANGED <<now, monitors, edits, jobs, moves>>

\* an execution of scan_due_monitors starts
SweepQuery(s) ==
    /\ runs < MaxRuns
    /\ runs' = runs + 1
    /\ SweepBegin(s, runs + 1)

\* (mutation: the loop catches the exception and goes on with the monitor)
Raise_caught(s, kind) ==
    /\ pc' = [pc EXCEPT ![s] = "reschedule"]
    /\ run' = [run EXCEPT ![s].err = kind, ![s].on = Head(todo[s]).id]
    /\ UNCHANGED <<now, monitors, edits, jobs, todo, runs, moves>>

\* an exception leaves the loop and the task: nothing catches it
Raise(s, kind) ==
    /\ pc' = [pc EXCEPT ![s] = "failed"]
    /\ run' = [run EXCEPT ![s].err = kind, ![s].on = Head(todo[s]).id]
    /\ UNCHANGED <<now, monitors, edits, jobs, todo, runs, moves>>

\* lines 259-263: scan_monitor_task.delay(monitor_id)
SweepSent(s) ==
    /\ pc[s] = "enqueue"
    /\ LET monitor == Head(todo[s]) IN
        /\ jobs' = Send(monitor.id, NoRow, "sweep")
        /\ run' = [run EXCEPT ![s].sent = Append(@, monitor.id)]
        /\ pc' = [pc EXCEPT ![s] = "reschedule"]
        /\ UNCHANGED <<now, monitors, edits, todo, runs, moves>>

\* line 262 returns, or raises what the broker raised
SweepEnqueue(s) ==
    /\ pc[s] = "enqueue"
    /\ (SweepSent(s) \/ Raise(s, "queue"))

\* (mutation: the next run is counted from the time of the sweep)
NextDate_fromClock(monitor, clock) ==
    calculate_next_run_at(Lower(monitor.frequency), clock, clock)

\* lines 266-273: the new next_run_at, from the row as the query returned it
NextDate(monitor, clock) ==
    LET frequency == Lower(monitor.frequency)
        current_next_run == monitor.next_run_at
        next_date == calculate_next_run_at(frequency, current_next_run, clock)
    IN  IF next_date = ValueError
        THEN calculate_next_run_at("daily", current_next_run, clock)
        ELSE next_date

\* (mutation: the write sends the whole row the query returned)
Rescheduled_wholeRow(monitor, next_date) ==
    [monitors EXCEPT ![monitor.id] = [monitor EXCEPT !.next_run_at = next_date]]

\* lines 275-278: update({"next_run_at": ...}).eq("id", monitor_id)
Rescheduled(monitor, next_date) ==
    [monitors EXCEPT ![monitor.id].next_run_at = next_date]

\* line 266, monitor.get("frequency", "daily").lower(): the default is for
\* a missing key; a frequency the store holds as null comes as None, which
\* has no lower()
Unreadable(monitor) == monitor.frequency = Null

\* lines 265-278 without an exception: the next run of the monitor just
\* enqueued is computed and written
SweepMoved(s) ==
    /\ pc[s] = "reschedule"
    /\ ~Unreadable(Head(todo[s]))
    /\ LET monitor == Head(todo[s])
           next_date == NextDate(monitor, now) IN
        /\ monitors' = Rescheduled(monitor, next_date)
        /\ run' = [run EXCEPT ![s].moved = Append(@, monitor.id)]
        /\ moves' = [moves EXCEPT ![monitor.id] =
                     [no |-> run[s].no, row |-> monitor, before |-> monitors[monitor.id],
                      to |-> next_date, at |-> now]]
        /\ todo' = [todo EXCEPT ![s] = Tail(@)]
        /\ pc' = [pc EXCEPT ![s] = IF Len(todo[s]) = 1 THEN "done" ELSE "enqueue"]
        /\ UNCHANGED <<now, edits, jobs, runs>>

\* lines 265-278: compute and persist the next run of the monitor just
\* enqueued; lines 266-267 raise on a row they cannot read, the update
\* raises what the store raised
SweepReschedule(s) ==
    /\ pc[s] = "reschedule"
    /\ (SweepMoved(s) \/ Raise(s, "parse") \/ Raise(s, "store"))

\* line 280, or the exception reaching the task wrapper: the slot is free again
SweepReturn(s) ==
    /\ pc[s] \in {"done", "failed"}
    /\ pc' = [pc EXCEPT ![s] = "idle"]
    /\ todo' = [todo EXCEPT ![s] = <<>>]
    /\ run' = [run EXCEPT ![s] = NoRun]
    /\ UNCHANGED <<now, monitors, edits, jobs, runs, moves>>

-----------------------------------------------------------------------------
(* the workers that consume ScanJobs *)

\* a worker receives the pending ScanJob j
WorkerTake(j) ==
    /\ BagIn(j, jobs) /\ j.st = "pending"
    /\ jobs' = (jobs (-) SetToBag({j})) (+) SetToBag({[j EXCEPT !.st = "running"]})
    /\ UNCHANGED <<now, monitors, edits, pc, todo, run, runs, moves>>

\* scan_monitor_task returns or raises: ScanJob j leaves the broker
WorkerDone(j) ==
    /\ BagIn(j, jobs) /\ j.st = "running"
    /\ jobs' = jobs (-) SetToBag({j})
    /\ UNCHANGED <<now, monitors, edits, pc, todo, run, runs, moves>>

-----------------------------------------------------------------------------
(* Specifications *)

CalcIdle == cFreq = "daily" /\ cLast = 0 /\ cNow = 0 /\ cOut = <<>>

SchedIdle ==
    /\ now = 0
    /\ monitors = [m \in Monitors |-> NoRow]
    /\ edits = 0
    /\ jobs = EmptyBag
    /\ pc = [s \in Sweeps |-> "idle"]
    /\ todo = [s \in Sweeps |-> <<>>]
    /\ run = [s \in Sweeps |-> NoRun]
    /\ runs = 0
    /\ moves = [m \in Monitors |-> NoMove]

-----------------------------------------------------------------------------
(* RateLimiter (utils/rate_limit.py)                                       *)

\* lines 17-18: self.limit, one value for each endpoint's limiter
LimitOf(l) == IF l = "create" THEN LimitCreate ELSE LimitTest

WindowIndexes == 0..(MaxRateTime \div Window)

\* line 46: int(time.time() // self.window)
CurrentWindow(t) == t \div Window

\* (mutation: a key without the window index)
Key_noWindow(client_ip, current_window) == <<client_ip, 0>>

\* line 47: f"rate_limit:{client_ip}:{current_window}"
Key(client_ip, current_window) == <<client_ip, current_window>>

Keys == Hosts \X WindowIndexes
NoKey == [n |-> 0, until |-> 0]

\* line 52: the expiry, window + 10 seconds, ten seconds being one tick
ExpireAfter == Window + 1

\* (mutation: the pipeline has no EXPIRE)
IncrExpire_noExpire(key, t) ==
    [counters EXCEPT ![key] = [n |-> counters[key].n + 1, until |-> counters[key].until]]

\* (mutation: an increment written from a read that missed the one before)
IncrExpire_lostUpdate(key, t) ==
    [counters EXCEPT ![key] = [n |-> IF counters[key].n = 0 THEN 1 ELSE counters[key].n,
                               until |-> t + ExpireAfter]]

\* lines 51-52 as Redis runs them: INCR of a missing key gives 1, EXPIRE
\* sets the time to live anew
IncrExpire(key, t) ==
    [counters EXCEPT ![key] = [n |-> counters[key].n + 1, until |-> t + ExpireAfter]]

\* Redis drops a key when its time to live is over
Expired(t) ==
    [k \in Keys |-> IF counters[k].until <= t THEN NoKey ELSE counters[k]]

\* (mutation: the handler of line 63 raises what it caught)
Handled_raised(exception) == "error"

\* lines 61-65: an HTTPException is raised again, any other exception is
\* logged and the call returns
Handled(exception) ==
    IF exception = "HTTPException" THEN "reject" ELSE "admit"

\* (mutation: the handler of line 63 takes the HTTPException too)
Outcome_swallowed(request_count, limit) == "admit"

\* lines 57-62: HTTPException(429) when the count is over the limit, raised
\* again by the handler of line 61
Outcome(request_count, limit) ==
    IF request_count > limit THEN "reject" ELSE "admit"

NoCheck == [host |-> "none", by |-> "none", window |-> -1, res |-> "none",
            count |-> 0, nth |-> 0, prevOver |-> FALSE, prevLive |-> FALSE,
            outcome |-> "none"]

\* what a check leaves behind for the properties: the check itself, the
\* number of increments its address made in its window, the keys a check
\* was rejected on, and the kinds of re-admission seen
Noted(l, host, res, count, outcome) ==
    LET w     == CurrentWindow(rnow)
        nth   == track.hits[<<host, w>>] + (IF res \in {"ok", "late"} THEN 1 ELSE 0)
        over  == w > 0 /\ <<host, w - 1>> \in track.over
        live  == w > 0 /\ counters[<<host, w - 1>>].n > 0
    IN  /\ lastCheck' = [host |-> host, by |-> l, window |-> w, res |-> res,
                         count |-> count, nth |-> nth, prevOver |-> over,
                         prevLive |-> live, outcome |-> outcome]
        /\ track' = [n    |-> track.n + 1,
                     hits |-> [track.hits EXCEPT ![<<host, w>>] = nth],
                     over |-> IF outcome = "reject"
                              THEN track.over \cup {<<host, w>>} ELSE track.over,
                     back |-> IF over /\ res = "ok" /\ nth = 1
                              THEN track.back \cup {live} ELSE track.back]

RateTick ==
    /\ rnow < MaxRateTime
    /\ rnow' = rnow + 1
    /\ counters' = Expired(rnow + 1)
    /\ UNCHANGED <<client, lastCheck, track>>

\* lines 36-41: no client, and _connect_redis (lines 23-28) fails again:
\* the request passes
CallNoClient(l, host) ==
    /\ track.n < MaxChecks
    /\ ~client[l]
    /\ Noted(l, host, "noclient", 0, "admit")
    /\ UNCHANGED <<rnow, client, counters>>

\* lines 36-37, 43-53 and 63-65: the client is there, made by _connect_redis
\* now if it was not; pipe.execute() raises, the commands run by the
\* server (applied) or not: the request passes
CallRaises(l, host, applied) ==
    /\ track.n < MaxChecks
    /\ client' = [client EXCEPT ![l] = TRUE]
    /\ counters' = IF applied
                   THEN IncrExpire(Key(host, CurrentWindow(rnow)), rnow)
                   ELSE counters
    /\ Noted(l, host, IF applied THEN "late" ELSE "lost", 0, Handled("RedisError"))
    /\ UNCHANGED rnow

\* lines 36-37 and 43-62: the client is there, made by _connect_redis now
\* if it was not; the pipeline answers with the count
CallCounts(l, host) ==
    /\ track.n < MaxChecks
    /\ client' = [client EXCEPT ![l] = TRUE]
    /\ LET key    == Key(host, CurrentWindow(rnow))
           result == IncrExpire(key, rnow)
           request_count == result[key].n
       IN  /\ counters' = result
           /\ Noted(l, host, "ok", request_count, Outcome(request_count, LimitOf(l)))
    /\ UNCHANGED rnow

-----------------------------------------------------------------------------
(* RateLimiter.__call__ run by several threads (FastAPI runs the sync       *)
(* dependency in a thread pool)                                             *)

CallIds == <<"c1", "c2", "c3">>      \* the calls, named in the order they begin
Calls   == {CallIds[i] : i \in 1..Len(CallIds)}

\* count is what the pipeline answered, inside whether it ran within the
\* window of the key
NoCall == [pc |-> "idle", by |-> "none", host |-> "none", key |-> <<"none", 0>>,
           count |-> 0, inside |-> FALSE, outcome |-> "none"]

\* lines 44-52: the thread reads the clock, builds its key and its pipeline
RaceBegin(c, l, host) ==
    /\ calls[c].pc = "idle"
    /\ \E i \in 1..Len(CallIds) :
          c = CallIds[i] /\ \A j \in 1..(i - 1) : calls[CallIds[j]].pc # "idle"
    /\ calls' = [calls EXCEPT ![c] = [NoCall EXCEPT !.pc = "keyed", !.by = l, !.host = host,
                                                    !.key = Key(host, CurrentWindow(rnow))]]
    /\ UNCHANGED <<rnow, client, counters, lastCheck, track>>

\* lines 53-55: pipe.execute(): Redis runs INCR and EXPIRE as one
\* transaction and answers with the count
RaceExecute(c) ==
    /\ calls[c].pc = "keyed"
    /\ LET result == IncrExpire(calls[c].key, rnow) IN
        /\ counters' = result
        /\ calls' = [calls EXCEPT ![c].pc = "counted",
                                  ![c].count = result[calls[c].key].n,
                                  ![c].inside = (CurrentWindow(rnow) = calls[c].key[2])]
    /\ UNCHANGED <<rnow, client, lastCheck, track>>

\* lines 53 and 63-65: pipe.execute() raises and nothing ran
RaceExecuteRaises(c) ==
    /\ calls[c].pc = "keyed"
    /\ calls' = [calls EXCEPT ![c].pc = "done", ![c].outcome = Handled("RedisError")]
    /\ UNCHANGED <<rnow, client, counters, lastCheck, track>>

\* lines 57-62: the thread compares the count it got
RaceDecide(c) ==
    /\ calls[c].pc = "counted"
    /\ calls' = [calls EXCEPT ![c].pc = "done",
                              ![c].outcome = Outcome(calls[c].count, LimitOf(calls[c].by))]
    /\ UNCHANGED <<rnow, client, counters, lastCheck, track>>

\* time passes while calls are under way
RaceTick ==
    /\ rnow < MaxRateTime
    /\ rnow' = rnow + 1
    /\ counters' = Expired(rnow + 1)
    /\ UNCHANGED <<client, lastCheck, track, calls>>

RaceIdle == calls = [c \in Calls |-> NoCall]

-----------------------------------------------------------------------------
(* The address a request is counted against *)

Identities     == {"none", "u1", "u2"}     \* the user of the bearer token, if any
Peers          == {"ip1", "ip2", "proxy"}  \* request.client.host
ForwardedLists == {<<>>, <<"ip1">>, <<"ip2">>, <<"ip3">>, <<"ip3", "ip1">>, <<"ip1", "ip3">>}
Requests       == [user : Identities, forwarded : ForwardedLists, host : Peers]

\* line 44: client_ip = request.client.host
ClientIp(req) == req.host

IdentCall ==
    /\ ident = <<>>
    /\ ident' = <<ClientIp(request)>>
    /\ UNCHANGED request

IdentIdle == request = [user |-> "none", forwarded |-> <<>>, host |-> "ip1"] /\ ident = <<>>

-----------------------------------------------------------------------------
(* scan_monitor_task (celery_tasks.py lines 133-227)                        *)

\* the deliveries a worker can get: the id, and the monitor_data keyword
\* when the sender gave one
Deliveries ==
    UNION {{[monitor_id |-> m, monitor_data |-> d] : d \in {NoRow, monitors[m]}} :
           m \in Monitors}

NoWork == [pc |-> "idle", no |-> 0, monitor_id |-> "none", snapshot |-> FALSE,
           looked |-> FALSE,
           monitor |-> NoRow, provider |-> "none", item_count |-> 0,
           pdf |-> "none", pdf_url |-> Null, report_id |-> Null,
           answers |-> <<>>, ret |-> "none", cause |-> "none"]

\* (mutation: the handler starts the body over)
ScanFails_retries(step) == [work EXCEPT !.pc = "fetch", !.cause = step]

\* lines 224-227: the handler logs and raises again: the task fails at `step`
ScanFails(step) == [work EXCEPT !.pc = "failed", !.cause = step]

\* a return statement
ScanReturns(w, retval) == [w EXCEPT !.pc = "returned", !.ret = retval]

\* (mutation: the check of line 162 is gone)
NoQueryText_never(query_text) == FALSE

\* line 162: not query_text
NoQueryText(query_text) == query_text = "" \/ query_text = Null

\* (mutation: an error of the provider is taken as an empty result)
AfterSearch_goesOn(ok) == "pdf"

\* lines 167-169 inside the try of line 152: where the task is after the
\* provider answered (ok) or raised
AfterSearch(ok) == IF ok THEN "pdf" ELSE "failed"

\* (mutation: _generate_pdf lets its exception out)
AfterPdf_raises(ok) == IF ok THEN "insert_search" ELSE "failed"

\* lines 84-131 and 182: _generate_pdf returns the URL, or None after
\* logging its exception; the task goes on either way
AfterPdf(ok) == "insert_search"

\* (mutation: the NotificationJob is sent right after the search record)
AfterInsertSearch_notifies(ok) == IF ok THEN "notify" ELSE "failed"

\* line 193 inside the try: the searches insert returned (ok) or raised
AfterInsertSearch(ok) == IF ok THEN "insert_report" ELSE "failed"

\* (mutation: the test of line 213 is gone)
HasData_always(answer) == TRUE

\* line 213: report_res.data
HasData(answer) == answer = "row"

\* the id the store gives the next report
NextReportId == Cardinality(reports) + 1

\* a task is delivered; lines 140-150: a delivery with a keyword the
\* signature lacks fails at the call, missing clients or credentials end
\* the task with None
ScanStart(job) ==
    /\ work.pc \in {"idle", "returned", "failed"}
    /\ scans < MaxScans
    /\ scans' = scans + 1
    /\ LET w == [NoWork EXCEPT !.no = scans + 1, !.monitor_id = job.monitor_id,
                              !.snapshot = job.monitor_data # NoRow] IN
        work' = IF job.monitor_data # NoRow
                    THEN [w EXCEPT !.pc = "failed", !.cause = "call"]
                ELSE IF ~conf.supabase \/ ~conf.google
                    THEN ScanReturns(w, Null)
                ELSE [w EXCEPT !.pc = "fetch"]
    /\ UNCHANGED <<conf, searches, reports, outbox>>

\* lines 154-164: look the monitor up; no row or no query text: return None
ScanFetch ==
    /\ work.pc = "fetch"
    /\ \/ LET monitor == monitors[work.monitor_id]
              w == [work EXCEPT !.looked = TRUE, !.monitor = monitor] IN
          work' = IF monitor = NoRow THEN ScanReturns(w, Null)
                  ELSE IF NoQueryText(monitor.query_text) THEN ScanReturns(w, Null)
                  ELSE [w EXCEPT !.pc = "search"]
       \/ work' = ScanFails("fetch")
    /\ UNCHANGED <<conf, scans, searches, reports, outbox>>

\* lines 167-179: call the provider, rank what it returned
ScanSearch(ok, n) ==
    /\ work.pc = "search"
    /\ work' = [work EXCEPT !.provider = IF ok THEN "ok" ELSE "error",
                            !.item_count = IF ok THEN n ELSE 0,
                            !.pc = AfterSearch(ok),
                            !.cause = IF AfterSearch(ok) = "failed" THEN "search" ELSE @]
    /\ UNCHANGED <<conf, scans, searches, reports, outbox>>

\* line 182: _generate_pdf
ScanPdf(ok) ==
    /\ work.pc = "pdf"
    /\ work' = [work EXCEPT !.pdf = IF ok THEN "ok" ELSE "failed",
                            !.pdf_url = IF ok THEN "url" ELSE Null,
                            !.pc = AfterPdf(ok),
                            !.cause = IF AfterPdf(ok) = "failed" THEN "pdf" ELSE @]
    /\ UNCHANGED <<conf, scans, searches, reports, outbox>>

\* lines 185-193: insert the search record
ScanInsertSearch(ok) ==
    /\ work.pc = "insert_search"
    /\ searches' = IF ok
                   THEN searches \cup {[id |-> Cardinality(searches) + 1,
                                         query_text |-> work.monitor.query_text,
                                         by |-> work.no]}
                   ELSE searches
    /\ work' = [work EXCEPT !.pc = AfterInsertSearch(ok),
                            !.cause = IF AfterInsertSearch(ok) = "failed"
                                      THEN "insert_search" ELSE @]
    /\ UNCHANGED <<conf, scans, reports, outbox>>

\* (mutation: the insert with item_count is the only one)
ReportInserts_noRetry(first, second) == <<first>>

\* lines 204-211: the answers the execution gets to its inserts into
\* reports: to the one with item_count, and, when that raised, to the one
\* without
ReportInserts(first, second) ==
    IF first = "raises" THEN <<first, second>> ELSE <<first>>

\* lines 195-222: insert the report with item_count, without it when that
\* raised (first = "raises"); the store answers an insert with the row
\* ("row"), with no data and no row made ("norow"), or raises
ScanInsertReport(first, second) ==
    /\ work.pc = "insert_report"
    /\ LET answers == ReportInserts(first, second)
           answer == answers[Len(answers)]
           row == [id |-> NextReportId, user_id |-> work.monitor.user_id,
                   monitor_id |-> work.monitor_id, pdf_url |-> work.pdf_url,
                   item_count |-> IF Len(answers) = 2 THEN Null ELSE work.item_count,
                   by |-> work.no]
           w == [work EXCEPT !.answers = answers]
       IN  /\ reports' = IF answer = "row" THEN reports \cup {row} ELSE reports
           /\ work' =
                IF answer = "raises"
                    THEN [w EXCEPT !.pc = "failed", !.cause = "insert_report"]
                ELSE IF HasData(answer)
                    THEN [w EXCEPT !.pc = "notify",
                                   !.report_id = IF answer = "row" THEN row.id ELSE Null]
                ELSE ScanReturns(w, "success_no_id")
    /\ UNCHANGED <<conf, scans, searches, outbox>>

\* lines 214-219: send the NotificationJob, return the report id
ScanNotify(sent) ==
    /\ work.pc = "notify"
    /\ outbox' = IF sent
                 THEN Append(outbox, [report_id |-> work.report_id, by |-> work.no])
                 ELSE outbox
    /\ work' = IF sent THEN ScanReturns(work, work.report_id) ELSE ScanFails("notify")
    /\ UNCHANGED <<conf, scans, searches, reports>>

ScanIdle ==
    /\ conf = [supabase |-> TRUE, google |-> TRUE]
    /\ work = NoWork
    /\ scans = 0
    /\ searches = {}
    /\ reports = {}
    /\ outbox = <<>>

-----------------------------------------------------------------------------
(* cleanup_old_reports and send_report_email_task (celery_tasks.py)         *)

\* (mutation: the delete goes to the monitors table)
CleanupTable_monitors == "monitors"

\* line 307: supabase.table("reports")
CleanupTable == "reports"

\* lines 307-310: .delete().lt("created_at", cutoff_iso) on a table: rows
\* are made in the order of their numbers (the place of the id in MonitorIds,
\* the number of the execution that made the report), and the first
\* `older` of them are older than the cutoff
Deleted(table, older) ==
    [monitors |-> IF table = "monitors"
                  THEN [m \in Monitors |->
                            IF \E i \in 1..older : i <= Len(MonitorIds) /\ MonitorIds[i] = m
                            THEN NoRow ELSE monitors[m]]
                  ELSE monitors,
     reports  |-> IF table = "reports"
                  THEN {r \in reports : r.by > older}
                  ELSE reports]

\* lines 289-317: without the client the task raises; else one delete
cleanup_old_reports(older) ==
    /\ conf.supabase
    /\ LET left == Deleted(CleanupTable, older) IN
        /\ monitors' = left.monitors
        /\ reports' = left.reports
    /\ UNCHANGED <<now, edits, jobs, pc, todo, run, runs, moves>>
    /\ UNCHANGED <<conf, work, scans, searches, outbox, emails>>

\* lines 326-425: a NotificationJob is delivered: read the report, find the
\* recipient, hand the message to SMTP; the task returns None when the
\* report or the recipient is not found, "email_sent" after sendmail, and
\* raises what SMTP raised
send_report_email_task(job, outcome) ==
    /\ \E i \in 1..Len(outbox) : outbox[i] = job
    /\ LET found == conf.supabase /\ \E r \in reports : r.id = job.report_id IN
        emails' = IF found /\ outcome = "email_sent"
                  THEN emails \cup {job.report_id} ELSE emails
    /\ UNCHANGED <<schedVars, scanVars>>

-----------------------------------------------------------------------------
(* BaseTask (celery_tasks.py lines 34-51) and the end of the task bodies    *)

TaskNames == {"scan_monitor_task", "send_report_email_task"}
Slots     == {"e1", "e2"}       \* executions one worker process has in progress
NoExec    == [pc |-> "idle", no |-> 0, name |-> "none", event |-> "none", out |-> "none"]
NoResult  == [event |-> "none", state |-> "PENDING"]

\* (mutation: the handler of the task body logs and returns)
Propagated_swallowed(name, exception) == "returned"

\* lines 224-227 and 419-425: the handler around the body of
\* scan_monitor_task and of send_report_email_task logs the exception and
\* raises it: the exception leaves the task function
Propagated(name, exception) == "raised"

\* the status records of execution `no`, in the order they were written
RecordsOf(no) ==
    LET Mine(x) == x.no = no IN SelectSeq(log, Mine)

LifeTick ==
    /\ lnow < MaxLifeTime
    /\ lnow' = lnow + 1
    /\ UNCHANGED <<start_time, execs, begun, log, results>>

\* lines 38-41, BaseTask.__call__: set self.start_time, log the start, run
\* the body
LifeCall(e, name) ==
    /\ execs[e].pc = "idle"
    /\ begun < MaxExecs
    /\ begun' = begun + 1
    /\ start_time' = [start_time EXCEPT ![name] = lnow]
    /\ log' = Append(log, [no |-> begun + 1, status |-> "start", duration |-> 0,
                         at |-> lnow])
    /\ execs' = [execs EXCEPT ![e] = [NoExec EXCEPT !.pc = "running", !.no = begun + 1,
                                                    !.name = name]]
    /\ UNCHANGED <<lnow, results>>

\* the body ends: a return statement, or an exception raised inside its try
LifeBody(e, event) ==
    /\ execs[e].pc = "running"
    /\ execs' = [execs EXCEPT ![e].pc = "traced", ![e].event = event,
                              ![e].out = IF event = "raises"
                                         THEN Propagated(execs[e].name, "Exception")
                                         ELSE "returned"]
    /\ UNCHANGED <<lnow, start_time, begun, log, results>>

\* Celery's tracer after the call: on_success (lines 43-46) when the call
\* returned and the state is SUCCESS, on_failure (lines 48-51) when it
\* raised and the state is FAILURE; each logs the status with the duration
LifeTrace(e) ==
    /\ execs[e].pc = "traced"
    /\ LET x == execs[e]
           duration == lnow - start_time[x.name]
           raised == x.out = "raised" IN
        /\ log' = Append(log, [no |-> x.no,
                               status |-> IF raised THEN "error" ELSE "success",
                               duration |-> duration, at |-> lnow])
        /\ results' = [results EXCEPT ![x.no] =
                            [event |-> x.event,
                             state |-> IF raised THEN "FAILURE" ELSE "SUCCESS"]]
    /\ execs' = [execs EXCEPT ![e] = NoExec]
    /\ UNCHANGED <<lnow, start_time, begun>>

LifeIdle ==
    /\ lnow = 0
    /\ start_time = [n \in TaskNames |-> -1]
    /\ execs = [e \in Slots |-> NoExec]
    /\ begun = 0
    /\ log = <<>>
    /\ results = [no \in 1..MaxExecs |-> NoResult]

-----------------------------------------------------------------------------
(* download_report (main.py lines 135-164)                                  *)

ReportIds  == {"r1", "r2", "not-a-uuid"}    \* the path parameter
Owners     == {"u1", "u2"}                  \* user ids
PdfUrls    == {"url1", "", Null}            \* pdf_url of a row: a URL, empty, None
NoReport   == [id |-> "none"]
ReportRows == {[id |-> "r1", user_id |-> u, pdf_url |-> p] : u \in Owners, p \in PdfUrls}

\* Postgres casts the id to uuid
IsUuid(report_id) == report_id # "not-a-uuid"

\* (mutation: the query does not filter on the owner)
Selected_anyOwner(table, report_id, user_id) ==
    {r \in table : r.id = report_id}

\* line 144: .select("pdf_url").eq("id", report_id).eq("user_id", user_id)
Selected(table, report_id, user_id) ==
    {r \in table : r.id = report_id /\ r.user_id = user_id}

\* line 144: .execute(): the rows, or the exception of the store, which for
\* an id that is no uuid is error 22P02
Execute(table, req) ==
    IF req.fault THEN [raised |-> "other", data |-> {}]
    ELSE IF ~IsUuid(req.report_id) THEN [raised |-> "22P02", data |-> {}]
    ELSE [raised |-> "none", data |-> Selected(table, req.report_id, req.user_id)]

\* lines 137-164: the response
Response(supabase, table, req) ==
    IF ~supabase THEN [status |-> 503, location |-> Null]
    ELSE LET response == Execute(table, req) IN
         IF response.raised = "22P02" THEN [status |-> 404, location |-> Null]
         ELSE IF response.raised # "none" THEN [status |-> 500, location |-> Null]
         ELSE IF response.data = {} THEN [status |-> 404, location |-> Null]
         ELSE LET pdf_url == (CHOOSE r \in response.data : TRUE).pdf_url IN
              IF pdf_url \in {"", Null} THEN [status |-> 404, location |-> Null]
              ELSE [status |-> 307, location |-> pdf_url]

download_report ==
    /\ dOut = <<>>
    /\ dOut' = <<Response(dClient, dTable, dReq)>>
    /\ UNCHANGED <<dClient, dTable, dReq>>

LoadIdle ==
    /\ dClient = TRUE
    /\ dTable = {}
    /\ dReq = [report_id |-> "r1", user_id |-> "u1", fault |-> FALSE]
    /\ dOut = <<>>

-----------------------------------------------------------------------------
(* _calculate_score and the ranking (celery_tasks.py lines 53-77, 171-179)  *)

\* line 68
Keywords == {"attack", "breach", "malware", "ransomware", "vulnerability", "exploit"}

\* a title or a snippet, as the set of the words in it
Titles   == {{}, {"attack"}}
Snippets == {{"report"}, {"breach"}, {"attack", "update"}}

\* an item of the provider: its link tells the items of one answer apart
ItemsAt(i) == [link : {i}, title : Titles, snippet : Snippets]

\* line 67: title + " " + snippet, lowered
TextToScan(item) == item.title \cup item.snippet

\* lines 57-77: 10 for every keyword found in the text, and 5
calculate_score(item) ==
    10 * Cardinality({kw \in Keywords : kw \in TextToScan(item)}) + 5

\* (mutation: an item goes in front of the items of its own score)
Before_orEqual(a, b) == a.score >= b.score

\* the order of line 179, key x["score"], reverse=True: a goes in front of
\* b when its score is greater
Before(a, b) == a.score > b.score

RECURSIVE Inserted(_, _)
\* the sorted list q with x, which came after all of q, put in its place:
\* behind every item that does not have to follow it
Inserted(q, x) ==
    IF q = <<>> THEN <<x>>
    ELSE IF Before(x, Head(q)) THEN <<x>> \o q
    ELSE <<Head(q)>> \o Inserted(Tail(q), x)

RECURSIVE Sorted(_)
\* list.sort: stable, also with reverse=True
Sorted(q) ==
    IF q = <<>> THEN <<>>
    ELSE Inserted(Sorted(SubSeq(q, 1, Len(q) - 1)), q[Len(q)])

\* lines 172-177: every item gets its score and is appended
Scored(q) ==
    [i \in 1..Len(q) |-> [link |-> q[i].link, title |-> q[i].title,
                          snippet |-> q[i].snippet, score |-> calculate_score(q[i])]]

\* lines 171-179
Rank ==
    /\ ranked = <<>>
    /\ ranked' = <<Sorted(Scored(items))>>
    /\ UNCHANGED items

RankIdle == items = <<>> /\ ranked = <<>>

-----------------------------------------------------------------------------
(* The requests RateLimiter.__call__ let through, by time                   *)

RateTimes == 0..MaxRateTime
NoneYet   == [all |-> 0, counted |-> 0]

\* the check just made, lastCheck', is entered under its limiter, address
\* and the tick it was made at
Entered ==
    LET c == lastCheck'
        k == <<c.by, c.host, rnow>> IN
    IF c.outcome = "admit"
    THEN [admitted EXCEPT ![k] = [all     |-> @.all + 1,
                                  counted |-> @.counted + (IF c.res = "ok" THEN 1 ELSE 0)]]
    ELSE admitted

BurstIdle == admitted = [k \in Limiters \X Hosts \X RateTimes |-> NoneYet]

MailIdle == emails = {}

ApiIdle == replies = {}

LaterIdle == MailIdle /\ LifeIdle /\ LoadIdle /\ RankIdle /\ BurstIdle /\ ApiIdle

RateIdle ==
    /\ rnow = 0
    /\ client = [l \in Limiters |-> TRUE]
    /\ counters = [k \in Keys |-> NoKey]
    /\ lastCheck = NoCheck
    /\ track = [n |-> 0, hits |-> [k \in Keys |-> 0], over |-> {}, back |-> {}]

Init == CalcIdle /\ SchedIdle /\ RateIdle /\ RaceIdle /\ IdentIdle /\ ScanIdle /\ LaterIdle

\* the first monitor was created at tick 0, its first scan has run, and the
\* clock has reached its next_run_at
SchedBacklog ==
    /\ now = TicksPerDay
    /\ monitors = [m \in Monitors |->
            IF m = MonitorIds[1]
            THEN [id |-> m, user_id |-> "u1", query_text |-> "q1", frequency |-> "daily",
                  next_run_at |-> calculate_next_run_at("daily", 0, 0), active |-> TRUE]
            ELSE NoRow]
    /\ edits = 0
    /\ jobs = EmptyBag
    /\ pc = [s \in Sweeps |-> "idle"]
    /\ todo = [s \in Sweeps |-> <<>>]
    /\ run = [s \in Sweeps |-> NoRun]
    /\ runs = 0
    /\ moves = [m \in Monitors |-> NoMove]

InitQueue == CalcIdle /\ SchedBacklog /\ RateIdle /\ RaceIdle /\ IdentIdle /\ ScanIdle /\ LaterIdle

\* the scheduler: the clock, the store's writers and sweeps that run one at a
\* time (the beat sends one every 5 minutes, the hard time limit is 90 s)
SchedNext ==
    \/ Tick
    \/ \E id \in Monitors, u \in Users, t \in Terms, f \in {"daily", "weekly"} :
          CreateMonitor(id, u, t, f, TRUE)
    \/ \E m \in Monitors, field \in {"active", "query_text"} : ExternalEdit(m, field)
    \/ \E s \in Beat : SweepQuery(s)
    \/ \E s \in Beat : SweepEnqueue(s)
    \/ \E s \in Beat : SweepReschedule(s)
    \/ \E s \in Beat : SweepReturn(s)

Next == SchedNext /\ UNCHANGED <<calcVars, rateVars, raceVars, identVars, scanVars, laterVars>>

Spec == Init /\ [][Next]_vars

\* the broker: every path that sends a ScanJob, sweeps that overlap (a backlog
\* of beat messages served by several workers), and the workers
QueueNext ==
    \/ \E id \in Monitors, u \in Users, t \in Terms, sent \in BOOLEAN :
          CreateMonitor(id, u, t, "daily", sent)
    \/ \E id \in Monitors : TestMonitor(id)
    \/ \E s \in Sweeps : SweepQuery(s)
    \/ \E s \in Sweeps : SweepEnqueue(s)
    \/ \E s \in Sweeps : SweepReschedule(s)
    \/ \E s \in Sweeps : SweepReturn(s)
    \/ \E j \in BagToSet(jobs) : WorkerTake(j)
    \/ \E j \in BagToSet(jobs) : WorkerDone(j)

NextQueue == QueueNext /\ UNCHANGED <<calcVars, rateVars, raceVars, identVars, scanVars, laterVars>>

SpecQueue == InitQueue /\ [][NextQueue]_vars

\* calculate_next_run_at on its own: any frequency, any last_run_at, any clock
InitCalc ==
    /\ cFreq \in Frequencies
    /\ cLast \in 0..(MaxLastDay * TicksPerDay + TicksPerDay - 1)
    /\ cNow \in 0..(MaxNowDay * TicksPerDay + TicksPerDay - 1)
    /\ cOut = <<>>
    /\ SchedIdle /\ RateIdle /\ RaceIdle /\ IdentIdle /\ ScanIdle /\ LaterIdle

CalcCall ==
    /\ cOut = <<>>
    /\ cOut' = <<calculate_next_run_at(cFreq, cLast, cNow)>>
    /\ UNCHANGED <<cFreq, cLast, cNow, schedVars, rateVars, raceVars, identVars, scanVars, laterVars>>

NextCalc == CalcCall

SpecCalc == InitCalc /\ [][NextCalc]_vars

-----------------------------------------------------------------------------
(* SpecRate: the two limiters over one Redis                               *)

\* __init__ (lines 17-21): each limiter has its client, or None when
\* redis.from_url raised
InitRate ==
    /\ CalcIdle /\ SchedIdle /\ RaceIdle /\ IdentIdle /\ ScanIdle /\ LaterIdle
    /\ rnow = 0
    /\ client \in [Limiters -> BOOLEAN]
    /\ counters = [k \in Keys |-> NoKey]
    /\ lastCheck = NoCheck
    /\ track = [n |-> 0, hits |-> [k \in Keys |-> 0], over |-> {}, back |-> {}]

RateNext ==
    \/ RateTick
    \/ \E l \in Limiters, host \in Hosts : CallNoClient(l, host)
    \/ \E l \in Limiters, host \in Hosts, applied \in BOOLEAN :
            CallRaises(l, host, applied)
    \/ \E l \in Limiters, host \in Hosts : CallCounts(l, host)

NextRate == RateNext /\ UNCHANGED <<calcVars, schedVars, raceVars, identVars, scanVars, laterVars>>

SpecRate == InitRate /\ [][NextRate]_vars

-----------------------------------------------------------------------------
(* SpecRace: three threads of one process call limiters at once            *)

InitRace ==
    /\ CalcIdle /\ SchedIdle /\ RateIdle /\ RaceIdle /\ IdentIdle /\ ScanIdle /\ LaterIdle

RaceNext ==
    \/ RaceTick
    \/ \E c \in Calls, l \in Limiters, host \in Hosts : RaceBegin(c, l, host)
    \/ \E c \in Calls : RaceExecute(c)
    \/ \E c \in Calls : RaceExecuteRaises(c)
    \/ \E c \in Calls : RaceDecide(c)

NextRace == RaceNext /\ UNCHANGED <<calcVars, schedVars, identVars, scanVars, laterVars>>

SpecRace == InitRace /\ [][NextRace]_vars

-----------------------------------------------------------------------------
(* SpecIdent: any request, one call                                        *)

InitIdent ==
    /\ CalcIdle /\ SchedIdle /\ RateIdle /\ RaceIdle /\ ScanIdle /\ LaterIdle
    /\ request \in Requests
    /\ ident = <<>>

NextIdent == IdentCall /\ UNCHANGED <<calcVars, schedVars, rateVars, raceVars, scanVars, laterVars>>

SpecIdent == InitIdent /\ [][NextIdent]_vars

-----------------------------------------------------------------------------
(* SpecScan: one worker runs scan_monitor_task on the deliveries it gets   *)

\* a monitors row as create_monitor makes it, with the given query text
StoredRow(m, text) ==
    [id |-> m, user_id |-> "u1", query_text |-> text, frequency |-> "daily",
     next_run_at |-> calculate_next_run_at("daily", 0, 0), active |-> TRUE]

\* the first monitor is in the store; the second is there, there with an
\* empty query text, or not there; the worker is configured or not
InitScan ==
    /\ CalcIdle /\ RateIdle /\ RaceIdle /\ IdentIdle /\ LaterIdle
    /\ now = 0
    /\ \E second \in {NoRow, StoredRow(MonitorIds[2], ""), StoredRow(MonitorIds[2], "q1")} :
          monitors = [m \in Monitors |-> IF m = MonitorIds[1] THEN StoredRow(m, "q1")
                                         ELSE second]
    /\ edits = 0
    /\ jobs = EmptyBag
    /\ pc = [s \in Sweeps |-> "idle"]
    /\ todo = [s \in Sweeps |-> <<>>]
    /\ run = [s \in Sweeps |-> NoRun]
    /\ runs = 0
    /\ moves = [m \in Monitors |-> NoMove]
    /\ conf \in [supabase : BOOLEAN, google : BOOLEAN]
    /\ work = NoWork
    /\ scans = 0
    /\ searches = {}
    /\ reports = {}
    /\ outbox = <<>>

ScanNext ==
    \/ \E job \in Deliveries : ScanStart(job)
    \/ ScanFetch
    \/ \E ok \in BOOLEAN, n \in 0..MaxItems : ScanSearch(ok, n)
    \/ \E ok \in BOOLEAN : ScanPdf(ok)
    \/ \E ok \in BOOLEAN : ScanInsertSearch(ok)
    \/ \E first, second \in {"row", "norow", "raises"} : ScanInsertReport(first, second)
    \/ \E sent \in BOOLEAN : ScanNotify(sent)

NextScan == ScanNext /\ UNCHANGED <<calcVars, schedVars, rateVars, raceVars, identVars, laterVars>>

SpecScan == InitScan /\ [][NextScan]_vars

-----------------------------------------------------------------------------
(* SpecCadence: sweeps over a store whose rows have any frequency value    *)

\* a row of the monitors table as the sweep's query can return it: line 266
\* reads the frequency with a default and lowers it, lines 271-273 expect
\* values calculate_next_run_at refuses
AnyRow(m, frequency, next_run_at) ==
    [id |-> m, user_id |-> "u1", query_text |-> "q1", frequency |-> frequency,
     next_run_at |-> next_run_at, active |-> TRUE]

InitCadence ==
    /\ CalcIdle /\ RateIdle /\ RaceIdle /\ IdentIdle /\ ScanIdle /\ LaterIdle
    /\ now = TicksPerDay
    /\ \E f1, f2 \in StoredFrequencies, t \in {0, TicksPerDay}, both \in BOOLEAN :
          monitors = [m \in Monitors |->
                        IF m = MonitorIds[1] THEN AnyRow(m, f1, t)
                        ELSE IF both THEN AnyRow(m, f2, TicksPerDay) ELSE NoRow]
    /\ edits = 0
    /\ jobs = EmptyBag
    /\ pc = [s \in Sweeps |-> "idle"]
    /\ todo = [s \in Sweeps |-> <<>>]
    /\ run = [s \in Sweeps |-> NoRun]
    /\ runs = 0
    /\ moves = [m \in Monitors |-> NoMove]

CadenceNext ==
    \/ Tick
    \/ \E s \in Beat : SweepQuery(s)
    \/ \E s \in Beat : SweepEnqueue(s)
    \/ \E s \in Beat : SweepReschedule(s)
    \/ \E s \in Beat : SweepReturn(s)

NextCadence == CadenceNext /\ UNCHANGED <<calcVars, rateVars, raceVars, identVars, scanVars, laterVars>>

SpecCadence == InitCadence /\ [][NextCadence]_vars

-----------------------------------------------------------------------------
(* SpecStore: the HTTP endpoints and the four tasks over one store          *)

InitStore ==
    CalcIdle /\ SchedBacklog /\ RateIdle /\ RaceIdle /\ IdentIdle /\ ScanIdle /\ LaterIdle

StoreNext ==
    \/ /\ \/ \E id \in Monitors, u \in Users, t \in Terms, sent \in BOOLEAN :
                CreateMonitor(id, u, t, "daily", sent)
          \/ \E id \in Monitors : TestMonitor(id)
          \/ \E s \in Beat : SweepQuery(s)
          \/ \E s \in Beat : SweepEnqueue(s)
          \/ \E s \in Beat : SweepReschedule(s)
          \/ \E s \in Beat : SweepReturn(s)
       /\ UNCHANGED <<scanVars, mailVars>>
    \/ /\ \/ \E m \in Monitors : ScanStart([monitor_id |-> m, monitor_data |-> NoRow])
          \/ ScanFetch
          \/ \E ok \in BOOLEAN : ScanSearch(ok, 0)
          \/ ScanPdf(TRUE)
          \/ ScanInsertSearch(TRUE)
          \/ ScanInsertReport("row", "row")
          \/ ScanNotify(TRUE)
       /\ UNCHANGED <<schedVars, mailVars>>
    \/ \E older \in 0..MaxScans : cleanup_old_reports(older)
    \/ \E i \in 1..Len(outbox), outcome \in {"email_sent", Null, "raises"} :
            send_report_email_task(outbox[i], outcome)

NextStore ==
    StoreNext /\ UNCHANGED <<calcVars, rateVars, raceVars, identVars, lifeVars, loadVars,
                            rankVars, burstVars, apiVars>>

SpecStore == InitStore /\ [][NextStore]_vars

-----------------------------------------------------------------------------
(* SpecLife: executions of the tasks under BaseTask in one worker process   *)

InitLife ==
    CalcIdle /\ SchedIdle /\ RateIdle /\ RaceIdle /\ IdentIdle /\ ScanIdle /\ LaterIdle

LifeNext ==
    \/ LifeTick
    \/ \E e \in Slots, name \in TaskNames : LifeCall(e, name)
    \/ \E e \in Slots, event \in {"returns", "raises"} : LifeBody(e, event)
    \/ \E e \in Slots : LifeTrace(e)

NextLife ==
    LifeNext /\ UNCHANGED <<calcVars, schedVars, rateVars, raceVars, identVars, scanVars,
                           mailVars, loadVars, rankVars, burstVars, apiVars>>

SpecLife == InitLife /\ [][NextLife]_vars

-----------------------------------------------------------------------------
(* SpecLoad: download_report on any table, any request                      *)

\* the table has a report r1 or not and a report r2 or not; r1 of any owner
\* and any pdf_url
InitLoad ==
    /\ CalcIdle /\ SchedIdle /\ RateIdle /\ RaceIdle /\ IdentIdle /\ ScanIdle
    /\ MailIdle /\ LifeIdle /\ RankIdle /\ BurstIdle /\ ApiIdle
    /\ dClient \in BOOLEAN
    /\ \E first \in ReportRows \cup {NoReport}, second \in BOOLEAN :
          dTable = (IF first = NoReport THEN {} ELSE {first})
                    \cup (IF second THEN {[id |-> "r2", user_id |-> "u2", pdf_url |-> "url2"]}
                          ELSE {})
    /\ dReq \in [report_id : ReportIds, user_id : Owners, fault : BOOLEAN]
    /\ dOut = <<>>

NextLoad ==
    download_report /\ UNCHANGED <<calcVars, schedVars, rateVars, raceVars, identVars,
                                   scanVars, mailVars, lifeVars, rankVars, burstVars, apiVars>>

SpecLoad == InitLoad /\ [][NextLoad]_vars

-----------------------------------------------------------------------------
(* SpecRank: the ranking step on every answer of up to MaxRanked items      *)

InitRank ==
    /\ CalcIdle /\ SchedIdle /\ RateIdle /\ RaceIdle /\ IdentIdle /\ ScanIdle
    /\ MailIdle /\ LifeIdle /\ LoadIdle /\ BurstIdle /\ ApiIdle
    /\ \E n \in 0..MaxRanked :
          \E q \in [1..n -> UNION {ItemsAt(i) : i \in 1..n}] :
              /\ \A i \in 1..n : q[i].link = i
              /\ items = q
    /\ ranked = <<>>

NextRank ==
    Rank /\ UNCHANGED <<calcVars, schedVars, rateVars, raceVars, identVars, scanVars,
                        mailVars, lifeVars, loadVars, burstVars, apiVars>>

SpecRank == InitRank /\ [][NextRank]_vars

-----------------------------------------------------------------------------
(* SpecBurst: the checks of one address, each entered with its time         *)

InitBurst == InitRate

BurstNext ==
    \/ RateTick /\ UNCHANGED admitted
    \/ CallNoClient("create", "ip1") /\ admitted' = Entered
    \/ CallRaises("create", "ip1", FALSE) /\ admitted' = Entered
    \/ CallCounts("create", "ip1") /\ admitted' = Entered

NextBurst ==
    BurstNext /\ UNCHANGED <<calcVars, schedVars, raceVars, identVars, scanVars,
                             mailVars, lifeVars, loadVars, rankVars, apiVars>>

SpecBurst == InitBurst /\ [][NextBurst]_vars

-----------------------------------------------------------------------------
(* Claims about calculate_next_run_at *)

RECURSIVE MonthsFrom(_, _)
MonthsFrom(t, k) == IF k = 0 THEN t ELSE AddMonth(MonthsFrom(t, k - 1))

\* t with the step of a cadence added k times
StepsFrom(cadence, t, k) ==
    CASE cadence = "daily"   -> t + k * TicksPerDay
      [] cadence = "weekly"  -> t + k * 7 * TicksPerDay
      [] cadence = "monthly" -> MonthsFrom(t, k)

\* v is t plus k >= 1 steps, with k the least number of steps that passes clock
LeastStepsPast(cadence, t, clock, v) ==
    \E k \in 1..((clock - t) \div TicksPerDay + 1) :
        /\ v = StepsFrom(cadence, t, k)
        /\ v > clock
        /\ StepsFrom(cadence, t, k - 1) <= clock

\* C1: for a supported cadence and last_run_at <= now, calculate_next_run_at
\* returns last_run_at plus the least number k >= 1 of cadence steps that
\* makes the result strictly greater than now: never equal to now, never more
\* than one step beyond it.
C1_LeastFutureStep ==
    (Len(cOut) = 1 /\ cFreq \in Cadences /\ cLast <= cNow)
        => LeastStepsPast(cFreq, cLast, cNow, cOut[1])

\* a weekly schedule two whole weeks behind a clock that sits on its grid
C1_Witness ==
    /\ Len(cOut) = 1 /\ cFreq = "weekly"
    /\ cNow = cLast + 2 * 7 * TicksPerDay
    /\ cOut[1] = cNow + 7 * TicksPerDay

-----------------------------------------------------------------------------
(* Claims about scan_due_monitors and the monitor store *)

\* the step in which sweep s runs its query
Queries(s) == pc[s] = "idle" /\ pc'[s] # "idle"

\* the step in which sweep s writes the next_run_at of the monitor at hand
Writes(s) == pc[s] = "reschedule" /\ pc'[s] \in {"enqueue", "done"}

Range(q) == {q[i] : i \in 1..Len(q)}
NoRepeat(q) == \A i, j \in 1..Len(q) : i # j => q[i] # q[j]

JobsOf(bag, m) ==
    BagCardinality([j \in {x \in BagToSet(bag) : x.monitor_id = m} |-> bag[j]])

\* C2: one sweep enqueues exactly one ScanJob for each monitor that is active
\* with next_run_at <= now when the query runs, and enqueues no ScanJob and
\* writes no next_run_at for a monitor that is inactive or not yet due.
C2_OneJobPerDueMonitor ==
    /\ [][\A s \in Sweeps : Queries(s) =>
            /\ run'[s].found = {m \in Monitors : /\ Exists(m)
                                                /\ monitors[m].active
                                                /\ monitors[m].next_run_at <= now}
            /\ Ids(todo'[s]) = run'[s].found]_vars
    /\ [][\A m \in Monitors :
            /\ (Exists(m) /\ JobsOf(jobs', m) # JobsOf(jobs, m)) =>
                    \E s \in Sweeps : /\ pc[s] = "enqueue" /\ m \in run[s].found
                                      /\ run'[s].sent = Append(run[s].sent, m)
                                      /\ JobsOf(jobs', m) = JobsOf(jobs, m) + 1
            /\ (Exists(m) /\ monitors'[m].next_run_at # monitors[m].next_run_at) =>
                    \E s \in Sweeps : Writes(s) /\ m \in run[s].found]_vars
    /\ [](\A s \in Sweeps :
            /\ NoRepeat(run[s].sent) /\ Range(run[s].sent) \subseteq run[s].found
            /\ NoRepeat(run[s].moved) /\ Range(run[s].moved) \subseteq run[s].found
            /\ pc[s] = "done" => Range(run[s].sent) = run[s].found)

\* a finished sweep that found one monitor due and passed over another, which
\* had lapsed but was inactive
C2_Witness ==
    \E s \in Sweeps, m, n \in Monitors :
        /\ pc[s] = "done" /\ run[s].found = {m} /\ run[s].sent = <<m>>
        /\ Exists(n) /\ ~monitors[n].active /\ monitors[n].next_run_at <= run[s].at
        /\ JobsOf(jobs, n) = 1

\* C3: the reschedule write changes next_run_at of its monitor and nothing
\* else: every other field keeps the value the store holds at the write, also
\* one edited after the sweep read the row; no other row changes.
C3_RescheduleWritesOnlyNextRunAt ==
    [][\A s \in Sweeps : Writes(s) =>
        LET id == Head(todo[s]).id IN
        /\ monitors'[id] = [monitors[id] EXCEPT !.next_run_at = monitors'[id].next_run_at]
        /\ \A m \in Monitors \ {id} : monitors'[m] = monitors[m]]_vars

\* a monitor rescheduled from a row that was edited between the sweep's read
\* and its write, the edit still in the store
C3_Witness ==
    \E m \in Monitors :
        /\ moves[m].no > 0
        /\ moves[m].before.query_text # moves[m].row.query_text
        /\ monitors[m].query_text = moves[m].before.query_text
        /\ monitors[m].next_run_at = moves[m].to

C5_RescheduleKeepsGrid ==
    /\ \A m \in Monitors :
        (moves[m].no > 0 /\ Lower(moves[m].row.frequency) \in Cadences) =>
            \E k \in 1..(moves[m].at + 1) :
                moves[m].to = StepsFrom(Lower(moves[m].row.frequency),
                                        moves[m].row.next_run_at, k)
    /\ \A m, n \in Monitors :
        (/\ moves[m].no > 0 /\ moves[n].no > 0
         /\ moves[m].row.next_run_at = moves[n].row.next_run_at
         /\ Lower(moves[m].row.frequency) = Lower(moves[n].row.frequency)
         /\ moves[m].at < moves[n].to /\ moves[n].at < moves[m].to)
            => moves[m].to = moves[n].to

\* two sweeps at different clock readings, off the schedule's grid, moved two
\* monitors from one next_run_at to one new next_run_at
C5_Witness ==
    \E m, n \in Monitors :
        /\ moves[m].no > 0 /\ moves[n].no > moves[m].no
        /\ moves[m].row.next_run_at = moves[n].row.next_run_at
        /\ moves[m].at < moves[n].at
        /\ moves[m].at > moves[m].row.next_run_at
        /\ moves[m].to = moves[n].to

\* C6: however many periods a monitor has lapsed, the sweep that finds it due
\* sends one ScanJob for it, and a later sweep finds it due again only once
\* the clock has moved on and reached the next_run_at that was written.
C6_NoBurstAfterLapse ==
    /\ [][\A s \in Sweeps, m \in Monitors :
            (Queries(s) /\ m \in run'[s].found /\ moves[m].no > 0)
                => (now > moves[m].at /\ now >= moves[m].to)]_vars
    /\ [](\A s \in Sweeps : NoRepeat(run[s].sent))

\* a monitor two periods late was rescheduled, and a later sweep at the same
\* clock reading has finished without finding it
C6_Witness ==
    \E s \in Sweeps, m \in Monitors :
        /\ moves[m].no > 0
        /\ moves[m].at >= moves[m].row.next_run_at + 2 * TicksPerDay
        /\ JobsOf(jobs, m) = 2
        /\ monitors[m].active
        /\ pc[s] = "done" /\ run[s].no > moves[m].no
        /\ run[s].at = moves[m].at /\ run[s].found = {}

\* C7: a failure on one monitor does not abort the sweep: every other due
\* monitor of that sweep is still enqueued and rescheduled.  (The loop has
\* no handler: the exception ends the sweep.)
C7_FailureIsolated ==
    \A s \in Sweeps :
        pc[s] = "failed" =>
            \A m \in run[s].found \ {run[s].on} :
                m \in Range(run[s].sent) /\ m \in Range(run[s].moved)

\* C8: at most one ScanJob of a monitor is pending or executing at any time.
\* (No send path looks at the broker first.)
C8_OneActiveJobPerMonitor ==
    \A m \in Monitors : Active(m) <= 1

-----------------------------------------------------------------------------
(* Claims about RateLimiter *)

\* C9: a check that gets the count from Redis is rejected exactly when that
\* count, which is the number of increments made on its key in its window,
\* its own included, is over the limit; no check among the first `limit` on
\* the key is rejected, and a rejection is never turned into a pass.
C9_RejectedIffOverLimit ==
    lastCheck.outcome # "none" =>
        /\ lastCheck.res = "ok" =>
                /\ lastCheck.count = lastCheck.nth
                /\ lastCheck.outcome = "reject" <=> lastCheck.nth > LimitOf(lastCheck.by)
        /\ lastCheck.nth <= LimitOf(lastCheck.by) => lastCheck.outcome = "admit"

\* the third check of a window on the key of a limiter with limit 2
C9_Witness ==
    /\ lastCheck.by = "create" /\ lastCheck.res = "ok"
    /\ lastCheck.nth = LimitCreate + 1
    /\ lastCheck.outcome = "reject"

\* C10: after an address has been over the limit in one window, its first
\* check in the next window is admitted, the previous window's counter
\* expired or not.
C10_FreshWindowAdmits ==
    (lastCheck.outcome # "none" /\ lastCheck.prevOver /\ lastCheck.nth <= 1)
        => lastCheck.outcome = "admit"

\* a first check after a window with a rejection has passed both with the
\* previous counter still in Redis and with it gone
C10_Witness ==
    /\ track.back = {TRUE, FALSE}
    /\ lastCheck.prevOver /\ lastCheck.res = "ok" /\ lastCheck.nth = 1
    /\ lastCheck.outcome = "admit"

\* C11: a check that finds the counting store unreachable (no client after
\* the reconnect attempt, or the pipeline raising) admits the request and
\* raises nothing, however many increments its key already has.
C11_FailOpen ==
    lastCheck.res \in {"noclient", "lost", "late"} => lastCheck.outcome = "admit"

\* a check whose pipeline raised passed on a key that was already over the limit
C11_Witness ==
    /\ lastCheck.res = "lost"
    /\ lastCheck.nth > LimitOf(lastCheck.by)
    /\ lastCheck.outcome = "admit"
    /\ <<lastCheck.host, lastCheck.window>> \in track.over

\* the calls that got a count for key k from a pipeline run inside k's window
Counted(k) ==
    {c \in Calls : /\ calls[c].count > 0 /\ calls[c].key = k
                   /\ calls[c].inside}

\* C12: calls on one key that run at once within the key's window each get
\* a different count from the pipeline (no increment is lost), so at most
\* `limit` of the calls of a limiter on that key that got a count are admitted.
C12_AtomicIncrement ==
    \A k \in Keys :
        /\ \A c, d \in Counted(k) : c # d => calls[c].count # calls[d].count
        /\ \A l \in Limiters :
              Cardinality({c \in Counted(k) : /\ calls[c].by = l
                                              /\ calls[c].outcome = "admit"}) <= LimitOf(l)

\* three calls of one limiter on one key under way together: the last to
\* reach Redis is already rejected while the first two still hold counts 1 and 2
C12_Witness ==
    \E k \in Keys : \E c, d, e \in Counted(k) :
        /\ calls[c].by = "create" /\ calls[d].by = "create" /\ calls[e].by = "create"
        /\ calls[c].pc = "counted" /\ calls[c].count = 1
        /\ calls[d].pc = "counted" /\ calls[d].count = 2
        /\ calls[e].pc = "done" /\ calls[e].count = 3 /\ calls[e].outcome = "reject"

\* what the specification has a check count against
Identifier(req) ==
    IF req.user # "none" THEN req.user
    ELSE IF req.forwarded # <<>> THEN req.forwarded[1]
    ELSE req.host

\* C14: a check counts against the authenticated identity when there is
\* one, else against the first forwarded-for entry, else against the peer
\* address.  (The code takes the peer address in every case.)
C14_IdentifierChoice ==
    Len(ident) = 1 => ident[1] = Identifier(request)

\* the last tick at which a check can renew the expiry of key k, plus the
\* time to live: the tick from which k cannot be in Redis
Deadline(k) == (k[2] + 1) * Window - 1 + ExpireAfter

\* C13: the increment that creates a counter sets its expiry to
\* window + 10 s, longer than the window; no counter is in Redis without a
\* running expiry, and every counter is gone, by expiry alone, once the
\* window plus that time has passed.
C13_CountersExpire ==
    /\ [](\A k \in Keys :
            /\ ExpireAfter > Window
            /\ counters[k].n > 0 => (rnow < counters[k].until /\ counters[k].until <= Deadline(k))
            /\ rnow >= Deadline(k) => counters[k].n = 0)
    /\ [][\A k \in Keys :
            (counters[k].n = 0 /\ counters'[k].n > 0)
                => (counters'[k].n = 1 /\ counters'[k].until = rnow + ExpireAfter)]_vars

\* a counter that was incremented is gone at its deadline, the latest check
\* made being one on it
C13_Witness ==
    \E k \in Keys :
        /\ track.hits[k] > 0
        /\ counters[k].n = 0
        /\ rnow = Deadline(k)
        /\ lastCheck.host = k[1] /\ lastCheck.window = k[2]

\* the counter a check through limiter l reads and writes for an address in
\* a window: the key of line 47 has the address and the window, and nothing
\* of the endpoint
CounterOf(l, host, w) == counters[Key(host, w)]

\* C15: a check under one scope and identifier changes neither the counter
\* of any other scope or identifier nor the outcome the next check under
\* that other scope or identifier would get.
C15_ScopesIsolated ==
    [][track'.n = track.n + 1 =>
        \A l \in Limiters, host \in Hosts :
            <<l, host>> # <<lastCheck'.by, lastCheck'.host>> =>
                LET w == CurrentWindow(rnow)
                IN  /\ CounterOf(l, host, w)' = CounterOf(l, host, w)
                    /\ Outcome(CounterOf(l, host, w)'.n + 1, LimitOf(l))
                         = Outcome(CounterOf(l, host, w).n + 1, LimitOf(l))]_vars

-----------------------------------------------------------------------------
(* Claims about scan_monitor_task *)

\* what an execution, known by its number, left behind
SearchesBy(no) == {r \in searches : r.by = no}
ReportsBy(no)  == {r \in reports : r.by = no}
SentBy(no)     == {i \in 1..Len(outbox) : outbox[i].by = no}

\* the execution has ended, by a return or by an exception
Over(no) == no < work.no \/ (no = work.no /\ work.pc \in {"returned", "failed"})

Untouched(no) == SearchesBy(no) = {} /\ ReportsBy(no) = {} /\ SentBy(no) = {}

\* C16: when the lookup finds no row, or the row has no query text, the
\* task returns None without an exception, the provider is not called, and
\* the execution writes no search record, no report and sends no
\* NotificationJob.
C16_SkipWithoutRecords ==
    (work.looked /\ (work.monitor = NoRow \/ work.monitor.query_text = "")) =>
        /\ work.pc = "returned" /\ work.ret = Null /\ work.cause = "none"
        /\ work.provider = "none"
        /\ Untouched(work.no)

\* the second execution skipped a monitor with an empty query text, after
\* the first one made a report and sent its NotificationJob
C16_Witness ==
    /\ work.no = 2 /\ work.looked
    /\ work.monitor # NoRow /\ work.monitor.query_text = ""
    /\ work.pc = "returned" /\ work.ret = Null
    /\ ReportsBy(1) # {} /\ SentBy(1) # {}

\* the NotificationJobs of an execution carry the ids of reports it made
SentForOwnReports(no) ==
    \A i \in SentBy(no) : \E r \in ReportsBy(no) : r.id = outbox[i].report_id

Persisted(job, table) == \E r \in table : r.id = job.report_id /\ r.by = job.by

\* C18: every NotificationJob in the queue names a report that the
\* execution which sent it has inserted, and at the step that sends a job
\* the report is in the store already.
C18_NotifyAfterInsert ==
    /\ [](\A i \in 1..Len(outbox) : Persisted(outbox[i], reports))
    /\ [][Len(outbox') > Len(outbox) =>
            /\ outbox' = Append(outbox, outbox'[Len(outbox')])
            /\ Persisted(outbox'[Len(outbox')], reports)
            /\ reports' = reports]_vars

\* two executions have each inserted a report and then sent its job
C18_Witness ==
    /\ Len(outbox) = 2
    /\ outbox[1].by = 1 /\ outbox[2].by = 2
    /\ outbox[1].report_id # outbox[2].report_id
    /\ \A i \in 1..2 : Persisted(outbox[i], reports)
    /\ work.pc = "returned" /\ work.ret = outbox[2].report_id

\* C19: when the search provider raises, the task fails with that
\* exception, and the execution writes no search record, no report and
\* sends no NotificationJob.
C19_ProviderErrorFails ==
    work.provider = "error" =>
        /\ work.pc = "failed" /\ work.cause = "search" /\ work.ret = "none"
        /\ Untouched(work.no)

\* the second execution failed at the provider, after the first one had
\* written its records and sent its job
C19_Witness ==
    /\ work.no = 2 /\ work.provider = "error" /\ work.pc = "failed"
    /\ SearchesBy(1) # {} /\ ReportsBy(1) # {} /\ SentBy(1) # {}
    /\ Untouched(2)

C21_FallbackInsert ==
    /\ Len(work.answers) <= 2
    /\ Cardinality(ReportsBy(work.no)) <= 1
    /\ work.answers # <<>> =>
        /\ Len(work.answers) = (IF work.answers[1] = "raises" THEN 2 ELSE 1)
        /\ work.answers = <<"raises", "row">> =>
            /\ work.cause # "insert_report"
            /\ work.pc \in {"notify", "returned"} \/ work.cause = "notify"
            /\ \E r \in ReportsBy(work.no) :
                    r.item_count = Null /\ r.id = work.report_id
        /\ work.answers = <<"row">> =>
                \E r \in ReportsBy(work.no) : r.item_count = work.item_count

\* the store raised on the insert with item_count and took the one
\* without: the task returned the id of the one report it made
C21_Witness ==
    /\ work.answers = <<"raises", "row">>
    /\ work.pc = "returned"
    /\ \E r \in reports : ReportsBy(work.no) = {r} /\ r.item_count = Null /\ work.ret = r.id

\* C22: an execution delivered with a monitor snapshot is accepted: it does
\* not fail at the call, and it takes the monitor from the snapshot, making
\* no lookup in the store.
C22_SnapshotAccepted ==
    work.snapshot => work.cause # "call" /\ ~work.looked

-----------------------------------------------------------------------------
(* Claims about what the senders put into a ScanJob *)

\* C23: every ScanJob a sweep sent carries, with the monitor's id, the row
\* of that monitor as the sweep's query returned it.
C23_SweepSendsSnapshot ==
    \A j \in BagToSet(jobs) :
        j.by = "sweep" => j.monitor_data # NoRow /\ j.monitor_data.id = j.monitor_id

\* C24: a frequency outside daily, weekly and monthly never gives a
\* schedule: calculate_next_run_at answers it with ValueError, and no sweep
\* writes a next_run_at for a row that has such a frequency.
C24_NoDefaultCadence ==
    \A m \in Monitors :
        /\ (Exists(m) /\ Lower(monitors[m].frequency) \notin Cadences) =>
                calculate_next_run_at(Lower(monitors[m].frequency),
                                      monitors[m].next_run_at, now) = ValueError
        /\ moves[m] # NoMove => Lower(moves[m].row.frequency) \in Cadences

-----------------------------------------------------------------------------
(* Claims about the writers of the monitors table *)

\* the step is one of scan_monitor_task, send_report_email_task or
\* cleanup_old_reports, or the test endpoint sending its ScanJob
OtherThanCreateAndSweep ==
    \/ scanVars' # scanVars
    \/ mailVars' # mailVars
    \/ \E j \in BagToSet(jobs') : j.by = "test" /\ CopiesIn(j, jobs') > CopiesIn(j, jobs)

\* C25: a row of the monitors table changes only by create_monitor putting
\* it there or by a sweep's reschedule step writing its next_run_at; the
\* steps of scan_monitor_task, send_report_email_task, cleanup_old_reports
\* and of the test endpoint leave the table as it is, and no step takes a
\* row away.
C25_MonitorsFrame ==
    [][/\ \A m \in Monitors :
            /\ Exists(m) => monitors'[m] # NoRow
            /\ monitors'[m] # monitors[m] =>
                \/ /\ ~Exists(m)
                   /\ \E u \in Users, t \in Terms, f \in Cadences :
                            monitors'[m] = NewMonitor(m, u, t, f)
                \/ \E s \in Sweeps :
                        /\ pc[s] = "reschedule" /\ Head(todo[s]).id = m
                        /\ \E t \in 0..(monitors'[m].next_run_at) :
                                monitors'[m] = [monitors[m] EXCEPT !.next_run_at = t]
       /\ OtherThanCreateAndSweep => monitors' = monitors]_vars

\* a second monitor was created and the first rescheduled by a sweep, while
\* a scan made a report, its email went out, a cleanup deleted the report
\* and the test endpoint sent a ScanJob: the rows are what creation and the
\* sweep made them
C25_Witness ==
    /\ Exists(MonitorIds[2])
    /\ moves[MonitorIds[1]] # NoMove
    /\ monitors[MonitorIds[1]].next_run_at = moves[MonitorIds[1]].to
    /\ monitors[MonitorIds[1]].active
    /\ emails # {}
    /\ work.pc = "returned" /\ ReportsBy(work.no) = {} /\ SentBy(work.no) # {}
    /\ \E j \in BagToSet(jobs) : j.by = "test"

-----------------------------------------------------------------------------
(* Claims about BaseTask *)

-----------------------------------------------------------------------------
(* Claims about download_report *)

\* the report the request asks for, when it is there and the caller's
Owned == {r \in dTable : r.id = dReq.report_id /\ r.user_id = dReq.user_id}

\* C27: the answer is 307 only when the table has a report with the id
\* asked for, owned by the caller, with a pdf_url that is not empty, and
\* then the redirect goes to that pdf_url; with the client set and the
\* store answering, the answer is 404 when there is no such report, when
\* it is another user's or when the id is no uuid; without the client the
\* answer is 503.
C27_DownloadAnswers ==
    dOut # <<>> =>
        LET res == dOut[1] IN
        /\ res.status = 307 =>
                \E r \in Owned : r.pdf_url \notin {"", Null} /\ res.location = r.pdf_url
        /\ ~dClient => res.status = 503
        /\ (dClient /\ ~dReq.fault /\ (Owned = {} \/ ~IsUuid(dReq.report_id))) =>
                res.status = 404
        /\ (dClient /\ ~dReq.fault /\ \E r \in Owned : r.pdf_url \notin {"", Null}) =>
                res.status = 307

\* the report asked for is there with a pdf_url and is another user's: 404
C27_Witness ==
    /\ dOut # <<>> /\ dOut[1].status = 404
    /\ dClient /\ ~dReq.fault
    /\ \E r \in dTable : r.id = dReq.report_id /\ r.user_id # dReq.user_id /\ r.pdf_url = "url1"

-----------------------------------------------------------------------------
(* Claims about the monthly step *)

\* C28: with last_run_at on 31 January of the year 2023, which is no leap
\* year, and the clock between last_run_at and the same time of day on 28
\* February, so that the loop makes one step, the monthly schedule gives 28
\* February of that year at the same time of day, and nothing in March.
C28_MonthEndTruncation ==
    (/\ Len(cOut) = 1 /\ cFreq = "monthly"
     /\ ~IsLeap(BaseYear)
     /\ cLast \div TicksPerDay = Jan31
     /\ cLast <= cNow
     /\ cNow < Feb28 * TicksPerDay + (cLast % TicksPerDay))
        => /\ cOut[1] = Feb28 * TicksPerDay + (cLast % TicksPerDay)
           /\ cOut[1] \div TicksPerDay < Feb28 + 1

\* last_run_at is 31 January at the middle of the day, the clock reads the
\* same instant: the result is 28 February at the middle of the day
C28_Witness ==
    /\ cFreq = "monthly"
    /\ cLast = Jan31 * TicksPerDay + TicksPerDay \div 2
    /\ cNow = cLast
    /\ cOut = <<Feb28 * TicksPerDay + TicksPerDay \div 2>>

-----------------------------------------------------------------------------
(* Claims about the ranking *)

\* the keywords of line 68 that are in the title or the snippet
Matched(item) == {kw \in Keywords : kw \in item.title \/ kw \in item.snippet}

\* C29: ranked_items has every item of the provider's answer once and
\* nothing else, in an order of scores that never goes up, items of one
\* score in the order the provider gave them; an item with two different
\* keywords stands in front of every item with none.
C29_RankedStable ==
    ranked # <<>> =>
        LET r == ranked[1] IN
        /\ Len(r) = Len(items)
        /\ \A i \in 1..Len(items) :
                \E j \in 1..Len(r) :
                    /\ r[j].link = items[i].link
                    /\ r[j].title = items[i].title /\ r[j].snippet = items[i].snippet
        /\ \A i, j \in 1..Len(r) :
                i < j =>
                    /\ r[i].score >= r[j].score
                    /\ r[i].score = r[j].score => r[i].link < r[j].link
                    /\ ~(Matched(r[i]) = {} /\ Cardinality(Matched(r[j])) = 2)

\* the provider's third item has two keywords, its first and second have
\* one keyword each, the same score: the third is ranked first, the other
\* two follow in the provider's order
C29_Witness ==
    /\ Len(items) = 3 /\ ranked # <<>>
    /\ Cardinality(Matched(items[3])) = 2
    /\ Matched(items[1]) = {"attack"} /\ Matched(items[2]) = {"breach"}
    /\ ranked[1][1].link = 3 /\ ranked[1][2].link = 1 /\ ranked[1][3].link = 2

-----------------------------------------------------------------------------
(* Claims about the rate over time *)

\* requests of an address a limiter let through at the ticks from..to:
\* all of them, and those whose check Redis answered with a count
AdmittedIn(l, host, from, to, kind) ==
    LET RECURSIVE Sum(_)
        Sum(t) == IF t > to \/ t > MaxRateTime THEN 0
                  ELSE (IF kind = "all" THEN admitted[<<l, host, t>>].all
                        ELSE admitted[<<l, host, t>>].counted) + Sum(t + 1)
    IN  Sum(from)

\* the bounds of C30 for one kind of admitted request: over any Window + 1
\* ticks in a row, which every interval of one window length lies in, at
\* most twice the limit; over the ticks of one window at most the limit
RateBounds(kind) ==
    \A l \in Limiters, host \in Hosts :
        /\ \A a \in RateTimes :
                AdmittedIn(l, host, a, a + Window, kind) <= 2 * LimitOf(l)
        /\ \A w \in WindowIndexes :
                AdmittedIn(l, host, w * Window, w * Window + Window - 1, kind) <= LimitOf(l)

\* C30 as stated: the bounds hold for all the requests let through.
C30_BurstAtMostTwiceLimit == RateBounds("all")

\* C30: the bounds hold for the requests let through by a check that Redis
\* answered with a count: at most twice the limit in any interval of one
\* window length, at most the limit in one window.
C30_CountedBurstAtMostTwiceLimit == RateBounds("counted")

\* the boundary burst: the limit was let through at the last tick of the
\* first window and again at the first tick of the second, every check
\* counted by Redis, and the next check was rejected
C30_Witness ==
    /\ admitted[<<"create", "ip1", Window - 1>>].counted = LimitCreate
    /\ admitted[<<"create", "ip1", Window>>].counted = LimitCreate
    /\ rnow = Window
    /\ lastCheck.outcome = "reject" /\ lastCheck.res = "ok"

-----------------------------------------------------------------------------
(* Claims about deliveries, sweeps and the API's answers *)

\* C31: every delivery of a ScanJob, a repeated one too, adds at most one
\* search record, one report record and one NotificationJob, so the
\* deliveries so far made at most as many of each, and no delivery changes
\* the next_run_at of a monitor.
C31_DuplicateDeliveryBounded ==
    /\ \A no \in 1..MaxScans :
            /\ Cardinality(SearchesBy(no)) <= 1
            /\ Cardinality(ReportsBy(no)) <= 1
            /\ Cardinality(SentBy(no)) <= 1
            /\ no > scans => Untouched(no)
    /\ Cardinality(searches) <= scans
    /\ Cardinality(reports) <= scans
    /\ Len(outbox) <= scans
    /\ \A m \in Monitors :
            monitors[m] # NoRow =>
                monitors[m].next_run_at = StoredRow(m, "q1").next_run_at

\* the same ScanJob was delivered twice and both executions went through:
\* two search records, two reports of the one monitor, two NotificationJobs
C31_Witness ==
    /\ scans = 2 /\ work.pc = "returned"
    /\ Cardinality(searches) = 2
    /\ Cardinality(reports) = 2 /\ \A r \in reports : r.monitor_id = MonitorIds[1]
    /\ Len(outbox) = 2

\* the ScanJobs the sweeps sent for monitor m
SweepJobsOf(m) == {j \in BagToSet(jobs) : j.monitor_id = m /\ j.by = "sweep"}

\* C32: in every state, a failed or interrupted sweep's too, the monitors a
\* sweep has rescheduled are monitors it sent a ScanJob for before: what it
\* has rescheduled is the beginning of what it has sent, at most one
\* monitor behind, and every monitor a sweep ever rescheduled has a ScanJob
\* of a sweep.
C32_EnqueuedBeforeAdvanced ==
    /\ \A s \in Sweeps :
            /\ Len(run[s].moved) <= Len(run[s].sent)
            /\ Len(run[s].sent) <= Len(run[s].moved) + 1
            /\ SubSeq(run[s].sent, 1, Len(run[s].moved)) = run[s].moved
            /\ \A i \in 1..Len(run[s].sent) : SweepJobsOf(run[s].sent[i]) # {}
    /\ \A m \in Monitors : moves[m] # NoMove => SweepJobsOf(m) # {}

\* a sweep rescheduled one monitor, sent the ScanJob of the next and failed
\* at the write of its next_run_at
C32_Witness ==
    \E s \in Sweeps :
        /\ pc[s] = "failed" /\ run[s].err = "store"
        /\ Len(run[s].moved) = 1 /\ Len(run[s].sent) = 2
        /\ moves[run[s].moved[1]].no = run[s].no
        /\ monitors[run[s].sent[2]].next_run_at <= now

-----------------------------------------------------------------------------
(* SpecLive: the beat's sweeps for ever, with the workers taking the jobs   *)

\* both monitors are in the store and due; the frequency of the first is a
\* cadence or null
InitLive ==
    /\ CalcIdle /\ RateIdle /\ RaceIdle /\ IdentIdle /\ ScanIdle /\ LaterIdle
    /\ now = TicksPerDay
    /\ \E f \in {"daily", Null} :
          monitors = [m \in Monitors |->
                IF m = MonitorIds[1] THEN [StoredRow(m, "q1") EXCEPT !.frequency = f]
                ELSE StoredRow(m, "q1")]
    /\ edits = 0
    /\ jobs = EmptyBag
    /\ pc = [s \in Sweeps |-> "idle"]
    /\ todo = [s \in Sweeps |-> <<>>]
    /\ run = [s \in Sweeps |-> NoRun]
    /\ runs = 0
    /\ moves = [m \in Monitors |-> NoMove]

\* celery_app.py lines 54-58: the beat sends scan_due_monitors every five
\* minutes, and a worker runs it
BeatSweep(s) == SweepBegin(s, 1) /\ UNCHANGED runs

\* the broker takes the ScanJob of monitor m
SentFor(s, m) ==
    /\ BagCardinality(jobs) < MaxJobs
    /\ pc[s] = "enqueue" /\ Head(todo[s]).id = m
    /\ SweepSent(s)

\* the store takes the new next_run_at of monitor m
MovedFor(s, m) ==
    /\ pc[s] = "reschedule" /\ Head(todo[s]).id = m
    /\ SweepMoved(s)

LiveNext ==
    \/ Tick
    \/ \E s \in Beat : BeatSweep(s)
    \/ \E s \in Beat : BagCardinality(jobs) < MaxJobs /\ SweepEnqueue(s)
    \/ \E s \in Beat : SweepReschedule(s)
    \/ \E s \in Beat : SweepReturn(s)
    \/ \E j \in BagToSet(jobs) : WorkerTake(j)
    \/ \E j \in BagToSet(jobs) : WorkerDone(j)

NextLive == LiveNext /\ UNCHANGED <<calcVars, rateVars, raceVars, identVars, scanVars, laterVars>>

\* the beat keeps sending sweeps and the workers keep running what they
\* got; the broker and the store raise now and then, but not for ever: a
\* send and a write that are tried again and again go through
LiveFairness ==
    /\ \A s \in Beat :
        /\ WF_schedVars(BeatSweep(s))
        /\ WF_schedVars(BagCardinality(jobs) < MaxJobs /\ SweepEnqueue(s))
        /\ WF_schedVars(SweepReschedule(s))
        /\ WF_schedVars(SweepReturn(s))
        /\ \A m \in Monitors : SF_schedVars(SentFor(s, m)) /\ SF_schedVars(MovedFor(s, m))
    /\ WF_schedVars(\E j \in BagToSet(jobs) : WorkerTake(j))
    /\ WF_schedVars(\E j \in BagToSet(jobs) : WorkerDone(j))

SpecLive == InitLive /\ [][NextLive]_vars /\ LiveFairness

\* monitor m is active and due
Due(m) == Exists(m) /\ monitors[m].active /\ monitors[m].next_run_at <= now

\* C33: under sweeps that keep coming and a store and a broker that answer
\* in the end, a monitor with a cadence that is active and due is enqueued
\* and rescheduled in the end, every time it is due, whatever the other
\* monitors due with it.
C33_DueEventuallyServed ==
    \A m \in Monitors :
        (Due(m) /\ monitors[m].frequency \in Cadences)
            ~> (moves[m] # NoMove /\ monitors[m].next_run_at > now)

\* C34: the duration in the success or error record of an execution is the
\* time from that execution's own start record to the record, also when
\* executions of one task overlap in the process.
C34_DurationFromOwnStart ==
    \A no \in 1..MaxExecs :
        LET recs == RecordsOf(no) IN
        Len(recs) = 2 => recs[2].duration = recs[2].at - recs[1].at

-----------------------------------------------------------------------------
(* SpecCreate: POST /api/monitors with what the caller is answered          *)

\* main.py lines 73-74, 98-99 and 113-115: the answer when no row was made:
\* 503 without the client; 500 when the insert raised or returned no data,
\* the HTTPException of line 99 being caught by line 113
Refused(why) ==
    [status |-> IF why = "no_client" THEN 503 ELSE 500, monitor_id |-> Null]

\* lines 101-115: the answer after the insert: the id when .delay returned,
\* 500 when it raised
Created(id, sent) ==
    IF sent THEN [status |-> 200, monitor_id |-> id]
    ELSE [status |-> 500, monitor_id |-> Null]

\* lines 71-115
create_monitor(id, user_id, term, frequency, sent) ==
    \/ /\ CreateMonitor(id, user_id, term, frequency, sent)
       /\ replies' = replies \cup {Created(id, sent)}
    \/ /\ \E why \in {"no_client", "insert_raised", "no_data"} :
                replies' = replies \cup {Refused(why)}
       /\ UNCHANGED schedVars

CreateNext ==
    \/ Tick /\ UNCHANGED replies
    \/ \E id \in Monitors, u \in Users, t \in Terms, f \in Cadences, sent \in BOOLEAN :
            create_monitor(id, u, t, f, sent)

NextCreate ==
    CreateNext /\ UNCHANGED <<calcVars, rateVars, raceVars, identVars, scanVars,
                              mailVars, lifeVars, loadVars, rankVars, burstVars>>

SpecCreate == Init /\ [][NextCreate]_vars

\* the caller of create_monitor got the identifier of monitor m
Received(m) == [status |-> 200, monitor_id |-> m] \in replies

\* C35: a monitor is in the store, and a ScanJob of create_monitor is on the
\* broker, only when the caller was answered with the monitor's identifier:
\* a call answered with an error has persisted and enqueued nothing.
C35_CreateAllOrNothing ==
    \A m \in Monitors :
        /\ Exists(m) => Received(m)
        /\ (\E j \in BagToSet(jobs) : j.monitor_id = m /\ j.by = "create") => Received(m)

=============================================================================
